---- MODULE Spec2Model ----
(***************************************************************************)
(* Portfolio-Optimizer frontend: the Optimizer, Backtesting, ModelTraining *)
(* and Portfolio pages as state machines.  Every page is a React function  *)
(* component: its useState cells are the variables, its handlers are the   *)
(* actions.  An async handler is split at its await: the part before the   *)
(* await issues the HTTP request, the part after it runs when the response *)
(* is delivered.  Requests of one page are independent HTTP exchanges, so  *)
(* their responses are delivered in any order.                             *)
(*                                                                         *)
(* The HTTP backend is not part of the frontend sources; the little of it  *)
(* the pages depend on (request validation, the training task life cycle)  *)
(* is modelled from the specification and marked as such.                  *)
(*                                                                         *)
(* Numbers: weights are fixed-point integers in units of 1e-6 (Scale is    *)
(* 1.0); dates are day numbers, ordered as the ISO strings they stand for. *)
(***************************************************************************)
EXTENDS Integers, Sequences, FiniteSets, TLC

VARIABLES
  \* ---- Optimizer.js (useState cells, lines 10-21)
  opt_assetType, opt_selectedAssets, opt_riskTolerance, opt_rebalanceFreq,
  opt_startDate, opt_endDate, opt_optimizing, opt_results,
  \* the last toast.error message and a bit that flips with every toast.error
  opt_toast, opt_toastSeq,
  \* POST /optimize exchanges in flight (requests and their responses)
  opt_net,
  \* ---- Portfolio.js (useState cells, lines 20-35)
  pf_currentPortfolio, pf_holdings, pf_loading, pf_analysis, pf_analyzing,
  \* the last toast.error message and a bit that flips with every toast.error
  pf_toast, pf_toastSeq,
  \* GET /portfolio/holdings exchanges in flight, POST /portfolio/analyze
  \* exchanges in flight
  pf_fetches, pf_net,
  \* ---- Backtesting page (useState cells, lines 11-17); symbols and weights
  \* are the text inputs, each as its list of comma-separated fields
  bt_assetType, bt_symbols, bt_weights, bt_startDate, bt_endDate,
  bt_running, bt_results,
  \* the last toast.error message and a bit that flips with every toast.error
  bt_toast, bt_toastSeq,
  \* POST /backtest exchanges in flight
  bt_net,
  \* ---- ModelTraining.js (useState cells, lines 12-27); selectedAssets is
  \* the list of selected symbols
  mt_assetType, mt_selectedAssets, mt_training, mt_taskId, mt_status,
  mt_results,
  \* the last toast.error message
  mt_toast,
  \* POST /models/train: number issued so far (the k-th one asks for task k),
  \* exchanges in flight
  mt_posts, mt_net,
  \* per task: whether the setInterval of its pollTrainingStatus is active,
  \* the GET /models/status requests in flight (a count) and the responses in
  \* flight (a count per content)
  mt_interval, mt_statusRequests, mt_statusResponses,
  \* the backend's record of each task
  srv_task,
  \* the results of a completed task as the ModelTraining page renders them:
  \* results.models (its entries in key order), results.best_model.name and
  \* the rows of the Model Comparison list
  cmp_models, cmp_bestModel, cmp_rows,
  \* ---- the asset search of the Optimizer page (Optimizer.js lines 11-12,
  \* 21): searchResults is the set of assets listed
  sr_searchQuery, sr_searchResults, sr_searching,
  \* the pending debounce timer with the query and asset type its handleSearch
  \* closes over, the number of POST /assets/search sent so far and the
  \* exchanges in flight
  sr_timer, sr_sent, sr_net,
  \* ---- AuthProvider (AuthContext.js lines 10-13); the token is 0 for null
  au_user, au_loading, au_token, au_isGuest,
  \* the browser's localStorage (access_token, refresh_token, guest_mode) and
  \* the router's location
  localStorage, rt_path,
  \* ---- Auth page (useState cells, lines 12-21)
  ap_isLogin, ap_step, ap_phone_number, ap_otp, ap_loading,
  \* requests of the AuthProvider's functions in flight and their responses
  au_net,
  \* the backend: tokens issued so far, phone numbers an OTP was sent to
  srv_issued, srv_otpSent,
  \* ---- Portfolio.js, value history (useState cells, lines 34-35): the
  \* history held is named by the window and portfolio it was computed for
  pf_historyDays, pf_valueHistory,
  \* the pending timers of the window selector, each with the historyDays and
  \* currentPortfolio its fetchValueHistory closes over, and the GET
  \* /portfolio/value-history exchanges in flight
  pf_historyTimers, pf_historyNet

\* null in a cell that holds a record, and the absent string
NULL == [ null |-> TRUE ]
NONE == "none"

\* ------------------------------------------------------------------ bounds
MaxDate == 2          \* dates are 1..MaxDate; MaxDate stands for today
MaxHoldings == 2      \* holdings a portfolio can have
MaxFetches == 2       \* fetchHoldings calls in flight at once
MaxFields == 2        \* comma-separated fields typed into a text input
MaxTasks == 2         \* training tasks started
MaxInFlight == 2      \* GET /models/status exchanges in flight at once
MaxSearches == 2      \* POST /assets/search requests sent
MaxTokens == 3        \* access tokens the backend issues
MaxPending == 2       \* requests of the AuthProvider in flight at once
MaxTimers == 2        \* selector timers and value-history exchanges pending

\* ------------------------------------------------------------- value sets
AssetTypes == {"stock", "crypto"}
\* what /assets/search and /assets/popular can offer: symbol and asset class
\* (one ticker is listed in both classes)
Catalog == { [symbol |-> "AAPL", type |-> "stock"],
             [symbol |-> "MSFT", type |-> "stock"],
             [symbol |-> "AAPL", type |-> "crypto"] }
Dates == 1..MaxDate
Portfolios == {"p1", "p2"}
HoldingIds == 1..MaxHoldings

\* ------------------------------------------------------- the pages' cells
opt_vars == << opt_assetType, opt_selectedAssets, opt_riskTolerance,
               opt_rebalanceFreq, opt_startDate, opt_endDate, opt_optimizing,
               opt_results, opt_toast, opt_toastSeq, opt_net >>

pf_vars == << pf_currentPortfolio, pf_holdings, pf_loading, pf_analysis,
              pf_analyzing, pf_toast, pf_toastSeq, pf_fetches, pf_net >>

bt_vars == << bt_assetType, bt_symbols, bt_weights, bt_startDate, bt_endDate,
              bt_running, bt_results, bt_toast, bt_toastSeq, bt_net >>

mt_vars == << mt_assetType, mt_selectedAssets, mt_training, mt_taskId,
              mt_status, mt_results, mt_toast, mt_posts, mt_net, mt_interval,
              mt_statusRequests, mt_statusResponses, srv_task >>

cmp_vars == << cmp_models, cmp_bestModel, cmp_rows >>

sr_vars == << sr_searchQuery, sr_searchResults, sr_searching, sr_timer,
              sr_sent, sr_net >>

vh_vars == << pf_historyDays, pf_valueHistory, pf_historyTimers,
              pf_historyNet >>

au_vars == << au_user, au_loading, au_token, au_isGuest, localStorage, rt_path,
              ap_isLogin, ap_step, ap_phone_number, ap_otp, ap_loading,
              au_net, srv_issued, srv_otpSent >>

\* a page's handlers leave the cells of the other pages alone
opt_Frame ==
  UNCHANGED << pf_vars, bt_vars, mt_vars, cmp_vars, sr_vars, au_vars, vh_vars >>
pf_Frame ==
  UNCHANGED << opt_vars, bt_vars, mt_vars, cmp_vars, sr_vars, au_vars, vh_vars >>
bt_Frame ==
  UNCHANGED << opt_vars, pf_vars, mt_vars, cmp_vars, sr_vars, au_vars, vh_vars >>
mt_Frame ==
  UNCHANGED << opt_vars, pf_vars, bt_vars, cmp_vars, sr_vars, au_vars, vh_vars >>
cmp_Frame ==
  UNCHANGED << opt_vars, pf_vars, bt_vars, mt_vars, sr_vars, au_vars, vh_vars >>
\* the asset search belongs to the Optimizer page
sr_Frame ==
  UNCHANGED << pf_vars, bt_vars, mt_vars, cmp_vars, au_vars, vh_vars >>
\* the value history belongs to the Portfolio page
vh_Frame ==
  UNCHANGED << opt_vars, bt_vars, mt_vars, cmp_vars, sr_vars, au_vars >>
\* the AuthProvider, the router and the Auth page
au_Frame ==
  UNCHANGED << opt_vars, pf_vars, bt_vars, mt_vars, cmp_vars, sr_vars, vh_vars >>

\* ------------------------------------------------------------ sequences
RECURSIVE SeqFilter(_, _)
\* Array.prototype.filter with the predicate given as the set of kept values
SeqFilter(s, keep) ==
  IF s = <<>> THEN <<>>
  ELSE IF Head(s) \in keep THEN <<Head(s)>> \o SeqFilter(Tail(s), keep)
       ELSE SeqFilter(Tail(s), keep)

Range(s) == { s[i] : i \in 1..Len(s) }

NoDuplicates(s) == \A i, j \in 1..Len(s) : i # j => s[i] # s[j]

\* selectedAssets.map(a => a.symbol)
SymbolsOf(assets) == [ i \in 1..Len(assets) |-> assets[i].symbol ]

\* ------------------------------------------------------------- weights
\* 1.0 in the fixed-point unit of weights (1e-6)
Scale == 1000000
\* the tolerance of the PortfolioWeights invariant, 1e-6
WeightTolerance == 1

Abs(x) == IF x < 0 THEN -x ELSE x

RECURSIVE SumOver(_, _)
\* the sum of the values of an object over the keys in keys
SumOver(obj, keys) ==
  IF keys = {} THEN 0
  ELSE LET k == CHOOSE x \in keys : TRUE
       IN obj[k] + SumOver(obj, keys \ {k})

\* ======================================================================
\* Optimizer page (Optimizer.js)
\* ======================================================================
\* useState initial values; riskTolerance is in tenths
opt_Init ==
  /\ opt_assetType = "stock"
  /\ opt_selectedAssets = <<>>
  /\ opt_riskTolerance = 5
  /\ opt_rebalanceFreq = "daily"
  /\ opt_startDate = 1
  /\ opt_endDate = MaxDate
  /\ opt_optimizing = FALSE
  /\ opt_results = NULL
  /\ opt_toast = NONE
  /\ opt_toastSeq = 0
  /\ opt_net = {}

\* the debounce effect (lines 27-36) run for a new searchQuery or assetType:
\* its cleanup clears the pending timer, then a timer is set whose handleSearch
\* closes over the new values, or the results are emptied
sr_Effect(query, assetType) ==
  IF query # ""
  THEN /\ sr_timer' = [ query |-> query, asset_type |-> assetType ]
       /\ UNCHANGED sr_searchResults
  ELSE /\ sr_timer' = NULL
       /\ sr_searchResults' = {}

\* the asset-type buttons (lines 117, 128); a new asset type re-runs the
\* debounce effect
opt_setAssetType(t) ==
  /\ opt_assetType' = t
  /\ IF t # opt_assetType
     THEN sr_Effect(sr_searchQuery, t)
     ELSE UNCHANGED << sr_timer, sr_searchResults >>
  /\ sr_Frame
  /\ UNCHANGED << sr_searchQuery, sr_searching, sr_sent, sr_net >>
  /\ UNCHANGED << opt_selectedAssets, opt_riskTolerance, opt_rebalanceFreq,
                  opt_startDate, opt_endDate, opt_optimizing, opt_results,
                  opt_toast, opt_toastSeq, opt_net >>

\* a variant of opt_HasSymbol that compares whole asset objects
opt_HasSymbol_identity(assets, asset) == asset \in Range(assets)

\* selectedAssets.find(a => a.symbol === asset.symbol)
opt_HasSymbol(assets, asset) ==
  \E i \in 1..Len(assets) : assets[i].symbol = asset.symbol

\* addAsset: the asset comes from the search results or the popular list,
\* both fetched for the current asset type
opt_addAsset(asset) ==
  /\ asset.type = opt_assetType
  /\ IF ~opt_HasSymbol(opt_selectedAssets, asset)
     THEN opt_selectedAssets' = Append(opt_selectedAssets, asset)
     ELSE UNCHANGED opt_selectedAssets
  /\ opt_Frame
  /\ UNCHANGED << opt_assetType, opt_riskTolerance, opt_rebalanceFreq,
                  opt_startDate, opt_endDate, opt_optimizing, opt_results,
                  opt_toast, opt_toastSeq, opt_net >>

\* removeAsset: the X button of a selected asset
opt_removeAsset(symbol) ==
  /\ symbol \in Range(SymbolsOf(opt_selectedAssets))
  /\ opt_selectedAssets' =
       SeqFilter(opt_selectedAssets, { a \in Catalog : a.symbol # symbol })
  /\ opt_Frame
  /\ UNCHANGED << opt_assetType, opt_riskTolerance, opt_rebalanceFreq,
                  opt_startDate, opt_endDate, opt_optimizing, opt_results,
                  opt_toast, opt_toastSeq, opt_net >>

\* the date inputs: any date can be entered in either field
opt_setStartDate(d) ==
  /\ opt_startDate' = d
  /\ opt_Frame
  /\ UNCHANGED << opt_assetType, opt_selectedAssets, opt_riskTolerance,
                  opt_rebalanceFreq, opt_endDate, opt_optimizing, opt_results,
                  opt_toast, opt_toastSeq, opt_net >>

opt_setEndDate(d) ==
  /\ opt_endDate' = d
  /\ opt_Frame
  /\ UNCHANGED << opt_assetType, opt_selectedAssets, opt_riskTolerance,
                  opt_rebalanceFreq, opt_startDate, opt_optimizing, opt_results,
                  opt_toast, opt_toastSeq, opt_net >>

\* the body of POST /optimize as handleOptimize builds it
opt_Request ==
  [ symbols |-> SymbolsOf(opt_selectedAssets),
    asset_type |-> opt_assetType,
    start_date |-> opt_startDate,
    end_date |-> opt_endDate,
    risk_tolerance |-> opt_riskTolerance,
    rebalance_freq |-> opt_rebalanceFreq ]

\* a variant of opt_TooFewAssets with an off-by-one bound
opt_TooFewAssets_lt1(assets) == Len(assets) < 1

\* selectedAssets.length < 2
opt_TooFewAssets(assets) == Len(assets) < 2

\* handleOptimize up to its await (lines 77-92).  The handler validates the
\* selection itself, so it is invoked here with any selection; only the
\* button (disabled while optimizing) keeps it from running twice at once.
handleOptimize ==
  /\ ~opt_optimizing
  /\ IF opt_TooFewAssets(opt_selectedAssets)
     THEN /\ opt_toast' = "Select at least 2 assets"
          /\ opt_toastSeq' = 1 - opt_toastSeq
          /\ UNCHANGED << opt_optimizing, opt_net >>
     ELSE /\ opt_optimizing' = TRUE
          /\ opt_net' = opt_net \cup { [ kind |-> "request", req |-> opt_Request ] }
          /\ UNCHANGED << opt_toast, opt_toastSeq >>
  /\ opt_Frame
  /\ UNCHANGED << opt_assetType, opt_selectedAssets, opt_riskTolerance,
                  opt_rebalanceFreq, opt_startDate, opt_endDate, opt_results >>

\* a variant of opt_ServerRejects that does not validate the date range
opt_ServerRejects_nodates(req) == Len(req.symbols) < 2

\* POST /optimize, request validation: InvalidRequest for fewer than 2
\* symbols or a malformed date range (start > end)
opt_ServerRejects(req) ==
  \/ Len(req.symbols) < 2
  \/ req.start_date > req.end_date

\* the values a weight of a result takes here: 0, 0.5 and 1.0
WeightGrid == { 0, Scale \div 2, Scale }

\* a variant of opt_OptimalWeights whose weights are not normalised
opt_OptimalWeights_unnormalised(req) == [ Range(req.symbols) -> WeightGrid ]

\* the weights an optimization can return for a request (PortfolioWeights,
\* one weight in [0,1] per symbol, the weights summing to 1 within 1e-6):
\* equal weights up to the middle risk tolerance, everything in one symbol
\* above it
opt_OptimalWeights(req) ==
  IF req.risk_tolerance <= 5
  THEN { [ symbol \in Range(req.symbols) |-> Scale \div Len(req.symbols) ] }
  ELSE { [ symbol \in Range(req.symbols) |->
             IF symbol = (CHOOSE one \in Range(req.symbols) : TRUE)
             THEN Scale ELSE 0 ] }

\* the answers POST /optimize can give: a rejected request gets the structured
\* error InvalidRequest; a valid one gets results, a structured error of the
\* engine, or fails without a response body (detail NONE)
opt_ServerAnswers(req) ==
  IF opt_ServerRejects(req)
  THEN { [ kind |-> "error", detail |-> "InvalidRequest", req |-> req ] }
  ELSE { [ kind |-> "results", detail |-> NONE, req |-> req, weights |-> w ] :
           w \in opt_OptimalWeights(req) } \cup
       { [ kind |-> "error", detail |-> "InsufficientData", req |-> req ],
         [ kind |-> "error", detail |-> NONE, req |-> req ] }

opt_Server ==
  \E m \in opt_net :
    /\ m.kind = "request"
    /\ \E r \in opt_ServerAnswers(m.req) : opt_net' = (opt_net \ {m}) \cup {r}
    /\ opt_Frame
    /\ UNCHANGED << opt_assetType, opt_selectedAssets, opt_riskTolerance,
                    opt_rebalanceFreq, opt_startDate, opt_endDate,
                    opt_optimizing, opt_results, opt_toast, opt_toastSeq >>

\* a variant of opt_ErrorMessage that ignores the server's detail
opt_ErrorMessage_generic(detail) == "Optimization failed"

\* error.response?.data?.detail || 'Optimization failed' (line 96)
opt_ErrorMessage(detail) == IF detail # NONE THEN detail ELSE "Optimization failed"

\* handleOptimize after its await (lines 93-99): results are stored or the
\* error is toasted, and finally optimizing is reset.  The stored results
\* are the weights returned and remember the date range of the request they
\* answer.
handleOptimize_resume ==
  \E m \in opt_net :
    /\ m.kind \in {"results", "error"}
    /\ opt_net' = opt_net \ {m}
    /\ IF m.kind = "results"
       THEN /\ opt_results' = [ start_date |-> m.req.start_date,
                                end_date |-> m.req.end_date,
                                weights |-> m.weights ]
            /\ UNCHANGED << opt_toast, opt_toastSeq >>
       ELSE /\ opt_toast' = opt_ErrorMessage(m.detail)
            /\ opt_toastSeq' = 1 - opt_toastSeq
            /\ UNCHANGED opt_results
    /\ opt_optimizing' = FALSE
    /\ opt_Frame
    /\ UNCHANGED << opt_assetType, opt_selectedAssets, opt_riskTolerance,
                    opt_rebalanceFreq, opt_startDate, opt_endDate >>

opt_Next ==
  \/ \E t \in AssetTypes : opt_setAssetType(t)
  \/ \E a \in Catalog : opt_addAsset(a)
  \/ \E a \in Catalog : opt_removeAsset(a.symbol)
  \/ \E d \in Dates : opt_setStartDate(d)
  \/ \E d \in Dates : opt_setEndDate(d)
  \/ handleOptimize
  \/ opt_Server
  \/ handleOptimize_resume

\* ------------------------------------------- Optimizer: configuration
\* the risk-tolerance slider's min="0" and max="1" (lines 247-248), in tenths
\* (step="0.1", line 249)
SliderMin == 0
SliderMax == 10
RebalanceFreqs == { "daily", "weekly", "on-demand" }
\* positions a slider event may ask for, in tenths, before the range input
\* brings them into its range
RawSliderValues == (SliderMin - 1)..(SliderMax + 1)

\* a variant of opt_SliderValue for an input without min and max
opt_SliderValue_unclamped(raw) == raw

\* e.target.value of the range input (lines 244-253): the input keeps its
\* value between min and max
opt_SliderValue(raw) ==
  IF raw < SliderMin THEN SliderMin
  ELSE IF raw > SliderMax THEN SliderMax
  ELSE raw

\* onChange of the slider (line 251): setRiskTolerance(parseFloat(e.target.value))
opt_setRiskTolerance(raw) ==
  /\ opt_riskTolerance' = opt_SliderValue(raw)
  /\ opt_Frame
  /\ UNCHANGED << opt_assetType, opt_selectedAssets, opt_rebalanceFreq,
                  opt_startDate, opt_endDate, opt_optimizing, opt_results,
                  opt_toast, opt_toastSeq, opt_net >>

\* onChange of the rebalance-frequency select (lines 262-271)
opt_setRebalanceFreq(f) ==
  /\ opt_rebalanceFreq' = f
  /\ opt_Frame
  /\ UNCHANGED << opt_assetType, opt_selectedAssets, opt_riskTolerance,
                  opt_startDate, opt_endDate, opt_optimizing, opt_results,
                  opt_toast, opt_toastSeq, opt_net >>

\* the page once the user has made a selection (none, or two stocks) and
\* before the configuration is touched
opt_ConfigInit ==
  /\ opt_assetType = "stock"
  /\ opt_selectedAssets \in
       { <<>>, << [symbol |-> "AAPL", type |-> "stock"],
                  [symbol |-> "MSFT", type |-> "stock"] >> }
  /\ opt_riskTolerance = 5
  /\ opt_rebalanceFreq = "daily"
  /\ opt_startDate = 1
  /\ opt_endDate = MaxDate
  /\ opt_optimizing = FALSE
  /\ opt_results = NULL
  /\ opt_toast = NONE
  /\ opt_toastSeq = 0
  /\ opt_net = {}

\* the Optimizer page with the selection and dates held fixed
opt_ConfigNext ==
  \/ \E raw \in RawSliderValues : opt_setRiskTolerance(raw)
  \/ \E f \in RebalanceFreqs : opt_setRebalanceFreq(f)
  \/ handleOptimize
  \/ opt_Server
  \/ handleOptimize_resume

\* ======================================================================
\* Portfolio page (Portfolio.js): holdings and analysis
\* ======================================================================
\* useState initial values; holdings is the list of holdings, by id
pf_Init ==
  /\ pf_currentPortfolio = NONE
  /\ pf_holdings = {}
  /\ pf_loading = TRUE
  /\ pf_analysis = NULL
  /\ pf_analyzing = FALSE
  /\ pf_toast = NONE
  /\ pf_toastSeq = 0
  /\ pf_fetches = 0
  /\ pf_net = {}

\* the value-history windows of the selector (lines 382-385), in days
DayWindows == { 7, 30, 90, 365 }

\* useState initial values (lines 34-35); an empty history is NULL
vh_Init ==
  /\ pf_historyDays = 30
  /\ pf_valueHistory = NULL
  /\ pf_historyTimers = {}
  /\ pf_historyNet = {}

\* the GET /portfolio/value-history request of fetchValueHistory (lines
\* 90-92) called from a render in which historyDays is days and
\* currentPortfolio is portfolio
vh_Request(days, portfolio) ==
  [ kind |-> "request", days |-> days, portfolio_id |-> portfolio ]

\* setCurrentPortfolio, from fetchPortfolios (line 80) or the selector (line
\* 266), and the effect on currentPortfolio (lines 62-67), which starts
\* fetchHoldings (line 132: setLoading(true)) and fetchValueHistory when the
\* portfolio changed
pf_setCurrentPortfolio(p) ==
  /\ p # pf_currentPortfolio
  /\ pf_fetches < MaxFetches
  /\ pf_currentPortfolio' = p
  /\ pf_loading' = TRUE
  /\ pf_fetches' = pf_fetches + 1
  /\ pf_historyNet' = pf_historyNet \cup { vh_Request(pf_historyDays, p) }
  /\ vh_Frame
  /\ UNCHANGED << pf_historyDays, pf_valueHistory, pf_historyTimers >>
  /\ UNCHANGED << pf_holdings, pf_analysis, pf_analyzing, pf_toast,
                  pf_toastSeq, pf_net >>

\* fetchHoldings up to its await (lines 130-137), as handleAddHolding and
\* handleDeleteHolding call it after their request succeeded
fetchHoldings ==
  /\ pf_currentPortfolio # NONE
  /\ pf_fetches < MaxFetches
  /\ pf_loading' = TRUE
  /\ pf_fetches' = pf_fetches + 1
  /\ pf_Frame
  /\ UNCHANGED << pf_currentPortfolio, pf_holdings, pf_analysis, pf_analyzing,
                  pf_toast, pf_toastSeq, pf_net >>

\* fetchHoldings after its await (lines 138-145): the returned list replaces
\* holdings, or the failure is toasted; finally loading is reset.
\* GET /portfolio/holdings may return any list of holdings.
fetchHoldings_resume ==
  /\ pf_fetches > 0
  /\ pf_fetches' = pf_fetches - 1
  /\ \/ /\ \E list \in SUBSET HoldingIds : pf_holdings' = list
        /\ UNCHANGED << pf_toast, pf_toastSeq >>
     \/ /\ pf_toast' = "Failed to load portfolio"
        /\ pf_toastSeq' = 1 - pf_toastSeq
        /\ UNCHANGED pf_holdings
  /\ pf_loading' = FALSE
  /\ pf_Frame
  /\ UNCHANGED << pf_currentPortfolio, pf_analysis, pf_analyzing, pf_net >>

\* a variant of pf_TooFewHoldings with an off-by-one bound
pf_TooFewHoldings_lt1(holdings) == Cardinality(holdings) < 1

\* holdings.length < 2
pf_TooFewHoldings(holdings) == Cardinality(holdings) < 2

\* handleAnalyze up to its await (lines 216-231).  The handler validates the
\* holdings itself, so it is invoked here with any holdings list; only the
\* button (disabled while analyzing) keeps it from running twice at once.
\* The request remembers the holdings list it was made with.
handleAnalyze ==
  /\ ~pf_analyzing
  /\ IF pf_TooFewHoldings(pf_holdings)
     THEN /\ pf_toast' = "Need at least 2 holdings for analysis"
          /\ pf_toastSeq' = 1 - pf_toastSeq
          /\ UNCHANGED << pf_analyzing, pf_net >>
     ELSE /\ pf_analyzing' = TRUE
          /\ pf_net' = pf_net \cup
               { [ kind |-> "request", detail |-> NONE, holdings |-> pf_holdings ] }
          /\ UNCHANGED << pf_toast, pf_toastSeq >>
  /\ pf_Frame
  /\ UNCHANGED << pf_currentPortfolio, pf_holdings, pf_loading, pf_analysis,
                  pf_fetches >>

\* the current weights of the caller's holdings, here holdings of equal value
pf_CurrentWeights(holdings) ==
  [ h \in holdings |-> Scale \div Cardinality(holdings) ]

\* the optimal weights the analysis can find for the holdings
\* (PortfolioWeights): everything in one holding, or the weights as they are
pf_OptimalWeights(holdings) ==
  { [ h \in holdings |->
        IF \A other \in holdings : h <= other THEN Scale ELSE 0 ],
    pf_CurrentWeights(holdings) }

\* a variant of pf_Recommendation that reports the signed difference
pf_Recommendation_signed(h, current, optimal) ==
  [ symbol |-> h,
    action |-> IF optimal > current THEN "increase" ELSE "decrease",
    current_weight |-> current,
    optimal_weight |-> optimal,
    difference |-> optimal - current ]

\* the recommendation of the AnalysisEngine for one holding: action =
\* "increase" if optimalWeight > currentWeight else "decrease", difference =
\* |optimal - current|
pf_Recommendation(h, current, optimal) ==
  [ symbol |-> h,
    action |-> IF optimal > current THEN "increase" ELSE "decrease",
    current_weight |-> current,
    optimal_weight |-> optimal,
    difference |-> Abs(optimal - current) ]

\* the recommendations of an analysis with optimal weights w
pf_Recommendations(holdings, w) ==
  { pf_Recommendation(h, pf_CurrentWeights(holdings)[h], w[h]) : h \in holdings }

\* the answers POST /portfolio/analyze can give: an analysis, the structured
\* error InsufficientHoldings (the backend counts the caller's stored
\* holdings), or a failure without a response body
pf_ServerAnswers(m) ==
  { [ kind |-> "analysis", detail |-> NONE, holdings |-> m.holdings,
      recommendations |-> pf_Recommendations(m.holdings, w) ] :
      w \in pf_OptimalWeights(m.holdings) } \cup
  { [ kind |-> "error", detail |-> "InsufficientHoldings", holdings |-> m.holdings ],
    [ kind |-> "error", detail |-> NONE, holdings |-> m.holdings ] }

pf_Server ==
  \E m \in pf_net :
    /\ m.kind = "request"
    /\ \E r \in pf_ServerAnswers(m) : pf_net' = (pf_net \ {m}) \cup {r}
    /\ pf_Frame
    /\ UNCHANGED << pf_currentPortfolio, pf_holdings, pf_loading, pf_analysis,
                    pf_analyzing, pf_toast, pf_toastSeq, pf_fetches >>

\* handleAnalyze after its await (lines 232-238)
handleAnalyze_resume ==
  \E m \in pf_net :
    /\ m.kind \in {"analysis", "error"}
    /\ pf_net' = pf_net \ {m}
    /\ IF m.kind = "analysis"
       THEN /\ pf_analysis' = [ holdings |-> m.holdings,
                                 recommendations |-> m.recommendations ]
            /\ UNCHANGED << pf_toast, pf_toastSeq >>
       ELSE /\ pf_toast' = IF m.detail # NONE THEN m.detail ELSE "Analysis failed"
            /\ pf_toastSeq' = 1 - pf_toastSeq
            /\ UNCHANGED pf_analysis
    /\ pf_analyzing' = FALSE
    /\ pf_Frame
    /\ UNCHANGED << pf_currentPortfolio, pf_holdings, pf_loading, pf_fetches >>

\* the style of the action badge of a recommendation (lines 604-608): the
\* increase style when rec.action === 'Increase', the other style otherwise
pf_ActionBadge(rec) ==
  IF rec.action = "Increase" THEN "neon-mint" ELSE "amber-400"

pf_Next ==
  \/ \E p \in Portfolios : pf_setCurrentPortfolio(p)
  \/ fetchHoldings
  \/ fetchHoldings_resume
  \/ handleAnalyze
  \/ pf_Server
  \/ handleAnalyze_resume

\* ======================================================================
\* Backtesting page
\* ======================================================================
\* the tolerance of handleRunBacktest's sum check, 0.01
bt_Tolerance == 10000

\* what can be typed between two commas of the symbols input
SymbolFields == { "AAPL", "MSFT", " MSFT", "" }
\* what can be typed between two commas of the weights input
WeightFields == { "1", "0.5", "0.495", "1.5", "-0.5", "abc" }

FieldLists(fields) == UNION { [ 1..n -> fields ] : n \in 1..MaxFields }

\* String.prototype.trim on a field
Trim(f) == IF f = " MSFT" THEN "MSFT" ELSE IF f = " " THEN "" ELSE f

\* parseFloat on a trimmed field: the number in units of 1e-6, or NaN
ParseFloat(f) ==
  CASE f = "1"     -> [ nan |-> FALSE, v |-> 1000000 ]
    [] f = "0.5"   -> [ nan |-> FALSE, v |-> 500000 ]
    [] f = "0.495" -> [ nan |-> FALSE, v |-> 495000 ]
    [] f = "1.5"   -> [ nan |-> FALSE, v |-> 1500000 ]
    [] f = "-0.5"  -> [ nan |-> FALSE, v |-> -500000 ]
    [] f = "0.33"  -> [ nan |-> FALSE, v |-> 330000 ]
    [] f = "0.34"  -> [ nan |-> FALSE, v |-> 340000 ]
    [] OTHER       -> [ nan |-> TRUE, v |-> 0 ]

RECURSIVE bt_symbolList(_)
\* symbols.split(',').map(s => s.trim()).filter(s => s)
bt_symbolList(fields) ==
  IF fields = <<>> THEN <<>>
  ELSE IF Trim(Head(fields)) # ""
       THEN << Trim(Head(fields)) >> \o bt_symbolList(Tail(fields))
       ELSE bt_symbolList(Tail(fields))

RECURSIVE bt_weightList(_)
\* weights.split(',').map(w => parseFloat(w.trim())).filter(w => !isNaN(w))
bt_weightList(fields) ==
  IF fields = <<>> THEN <<>>
  ELSE IF ~ParseFloat(Trim(Head(fields))).nan
       THEN << ParseFloat(Trim(Head(fields))).v >> \o bt_weightList(Tail(fields))
       ELSE bt_weightList(Tail(fields))

RECURSIVE SumSeq(_)
\* weightList.reduce((a, b) => a + b, 0)
SumSeq(s) == IF s = <<>> THEN 0 ELSE Head(s) + SumSeq(Tail(s))

\* the index of the last occurrence of symbol in symbolList
LastIndex(symbolList, symbol) ==
  CHOOSE i \in 1..Len(symbolList) :
    /\ symbolList[i] = symbol
    /\ \A j \in (i + 1)..Len(symbolList) : symbolList[j] # symbol

\* weightsObj: symbolList.forEach((symbol, idx) => weightsObj[symbol] =
\* weightList[idx]), a later assignment to a key replacing an earlier one
bt_weightsObj(symbolList, weightList) ==
  [ symbol \in Range(symbolList) |-> weightList[LastIndex(symbolList, symbol)] ]

\* the sum of the weights a request carries
SumWeights(obj) == SumOver(obj, DOMAIN obj)

\* the cells other than the two text inputs, at their useState initial values
bt_InitRest ==
  /\ bt_assetType = "stock"
  /\ bt_startDate = 1
  /\ bt_endDate = MaxDate
  /\ bt_running = FALSE
  /\ bt_results = NULL
  /\ bt_toast = NONE
  /\ bt_toastSeq = 0
  /\ bt_net = {}

\* useState initial values: 'AAPL,MSFT,GOOGL' and '0.33,0.33,0.34'
bt_Init ==
  /\ bt_symbols = << "AAPL", "MSFT", "GOOGL" >>
  /\ bt_weights = << "0.33", "0.33", "0.34" >>
  /\ bt_InitRest

\* the page once the user has typed into the two text inputs (setSymbols and
\* setWeights, lines 114 and 127): the initial texts, or any text of at most
\* MaxFields fields
bt_TypedInit ==
  /\ bt_symbols \in FieldLists(SymbolFields) \cup { << "AAPL", "MSFT", "GOOGL" >> }
  /\ bt_weights \in FieldLists(WeightFields) \cup { << "0.33", "0.33", "0.34" >> }
  /\ bt_InitRest

\* a variant of bt_Validate that asks for two symbols, as the optimizer does
bt_Validate_min2(symbolList, weightList) ==
  IF Len(symbolList) < 2 THEN "Enter at least one symbol"
  ELSE IF Len(symbolList) # Len(weightList)
       THEN "Number of symbols must match number of weights"
  ELSE IF Abs(SumSeq(weightList) - Scale) > bt_Tolerance
       THEN "Weights must sum to 1.0"
  ELSE NONE

\* the validation of handleRunBacktest (lines 23-37): the error it toasts, or
\* NONE when the input passes
bt_Validate(symbolList, weightList) ==
  IF Len(symbolList) = 0 THEN "Enter at least one symbol"
  ELSE IF Len(symbolList) # Len(weightList)
       THEN "Number of symbols must match number of weights"
  ELSE IF Abs(SumSeq(weightList) - Scale) > bt_Tolerance
       THEN "Weights must sum to 1.0"
  ELSE NONE

\* the body of POST /backtest as handleRunBacktest builds it (lines 39-52)
bt_Request ==
  [ symbols |-> bt_symbolList(bt_symbols),
    asset_type |-> bt_assetType,
    weights |-> bt_weightsObj(bt_symbolList(bt_symbols), bt_weightList(bt_weights)),
    start_date |-> bt_startDate,
    end_date |-> bt_endDate ]

\* handleRunBacktest up to its await (lines 19-52); the button is disabled
\* while running
handleRunBacktest ==
  /\ ~bt_running
  /\ IF bt_Validate(bt_symbolList(bt_symbols), bt_weightList(bt_weights)) # NONE
     THEN /\ bt_toast' =
               bt_Validate(bt_symbolList(bt_symbols), bt_weightList(bt_weights))
          /\ bt_toastSeq' = 1 - bt_toastSeq
          /\ UNCHANGED << bt_running, bt_net >>
     ELSE /\ bt_running' = TRUE
          /\ bt_net' = bt_net \cup { [ kind |-> "request", detail |-> NONE,
                                       req |-> bt_Request ] }
          /\ UNCHANGED << bt_toast, bt_toastSeq >>
  /\ bt_Frame
  /\ UNCHANGED << bt_assetType, bt_symbols, bt_weights, bt_startDate,
                  bt_endDate, bt_results >>

\* POST /backtest, request validation: InvalidRequest for weights not summing
\* to 1 within tolerance or a malformed date range; one symbol is enough
bt_ServerRejects(req) ==
  \/ Len(req.symbols) = 0
  \/ Abs(SumWeights(req.weights) - Scale) > WeightTolerance
  \/ req.start_date > req.end_date

\* the answers POST /backtest can give; a response does not repeat the request
bt_ServerAnswers(req) ==
  IF bt_ServerRejects(req)
  THEN { [ kind |-> "error", detail |-> "InvalidRequest", req |-> NULL ] }
  ELSE { [ kind |-> "results", detail |-> NONE, req |-> NULL ],
         [ kind |-> "error", detail |-> "InsufficientData", req |-> NULL ],
         [ kind |-> "error", detail |-> NONE, req |-> NULL ] }

bt_Server ==
  \E m \in bt_net :
    /\ m.kind = "request"
    /\ \E r \in bt_ServerAnswers(m.req) : bt_net' = (bt_net \ {m}) \cup {r}
    /\ bt_Frame
    /\ UNCHANGED << bt_assetType, bt_symbols, bt_weights, bt_startDate,
                    bt_endDate, bt_running, bt_results, bt_toast, bt_toastSeq >>

\* error.response?.data?.detail || 'Backtest failed' (line 57)
bt_ErrorMessage(detail) == IF detail # NONE THEN detail ELSE "Backtest failed"

\* handleRunBacktest after its await (lines 54-60)
handleRunBacktest_resume ==
  \E m \in bt_net :
    /\ m.kind \in {"results", "error"}
    /\ bt_net' = bt_net \ {m}
    /\ IF m.kind = "results"
       THEN /\ bt_results' = [ kind |-> "BacktestResult" ]
            /\ UNCHANGED << bt_toast, bt_toastSeq >>
       ELSE /\ bt_toast' = bt_ErrorMessage(m.detail)
            /\ bt_toastSeq' = 1 - bt_toastSeq
            /\ UNCHANGED bt_results
    /\ bt_running' = FALSE
    /\ bt_Frame
    /\ UNCHANGED << bt_assetType, bt_symbols, bt_weights, bt_startDate,
                    bt_endDate >>

bt_Next ==
  \/ handleRunBacktest
  \/ bt_Server
  \/ handleRunBacktest_resume

\* ======================================================================
\* ModelTraining page (ModelTraining.js) and the training tasks
\* ======================================================================
Tasks == 1..MaxTasks
\* the life cycle of a task: queued -> running -> completed | failed
TaskStates == { "queued", "running", "completed", "failed" }
Terminal == { "completed", "failed" }
\* what a GET /models/status exchange can deliver: the task's status, or a
\* failure of the request
StatusReplies == TaskStates \cup { "error" }

RECURSIVE BagSize(_, _)
\* the number of messages in a bag given as counts over keys
BagSize(bag, keys) ==
  IF keys = {} THEN 0
  ELSE LET k == CHOOSE x \in keys : TRUE
       IN bag[k] + BagSize(bag, keys \ {k})

\* GET /models/status exchanges in flight, over all tasks
mt_InFlight ==
  BagSize(mt_statusRequests, Tasks) +
  BagSize(mt_statusResponses, Tasks \X StatusReplies)

\* useState initial values
mt_Init ==
  /\ mt_assetType = "stock"
  /\ mt_selectedAssets = << "AAPL", "MSFT", "GOOGL" >>
  /\ mt_training = FALSE
  /\ mt_taskId = 0
  /\ mt_status = NULL
  /\ mt_results = NULL
  /\ mt_toast = NONE
  /\ mt_posts = 0
  /\ mt_net = {}
  /\ mt_interval = [ k \in Tasks |-> FALSE ]
  /\ mt_statusRequests = [ k \in Tasks |-> 0 ]
  /\ mt_statusResponses = [ r \in Tasks \X StatusReplies |-> 0 ]
  /\ srv_task = [ k \in Tasks |-> "none" ]

\* the asset-type buttons (lines 145-162): the selection is cleared
mt_setAssetType(t) ==
  /\ mt_assetType' = t
  /\ mt_selectedAssets' = <<>>
  /\ mt_Frame
  /\ UNCHANGED << mt_training, mt_taskId, mt_status, mt_results, mt_toast,
                  mt_posts, mt_net, mt_interval, mt_statusRequests,
                  mt_statusResponses, srv_task >>

\* addAsset (lines 59-68), for an asset of the search results
mt_addAsset(asset) ==
  /\ asset.type = mt_assetType
  /\ IF asset.symbol \notin Range(mt_selectedAssets)
     THEN mt_selectedAssets' = Append(mt_selectedAssets, asset.symbol)
     ELSE UNCHANGED mt_selectedAssets
  /\ mt_Frame
  /\ UNCHANGED << mt_assetType, mt_training, mt_taskId, mt_status, mt_results,
                  mt_toast, mt_posts, mt_net, mt_interval, mt_statusRequests,
                  mt_statusResponses, srv_task >>

\* removeAsset (lines 70-74)
mt_removeAsset(symbol) ==
  /\ symbol \in Range(mt_selectedAssets)
  /\ mt_selectedAssets' =
       SeqFilter(mt_selectedAssets, Range(mt_selectedAssets) \ {symbol})
  /\ mt_Frame
  /\ UNCHANGED << mt_assetType, mt_training, mt_taskId, mt_status, mt_results,
                  mt_toast, mt_posts, mt_net, mt_interval, mt_statusRequests,
                  mt_statusResponses, srv_task >>

\* a variant of mt_TrainRequests that sends the request a second time
mt_TrainRequests_twice(posts) ==
  { [ kind |-> "train", task |-> posts + 1, detail |-> NONE ],
    [ kind |-> "train", task |-> posts + 2, detail |-> NONE ] }

\* the POST /models/train requests one run of handleStartTraining issues
\* (lines 86-91), after posts earlier ones: the request for the next task
mt_TrainRequests(posts) ==
  { [ kind |-> "train", task |-> posts + 1, detail |-> NONE ] }

\* handleStartTraining up to its await (lines 76-91).  The handler validates
\* the selection itself; the button (disabled while training, line 291) is
\* what keeps it from running while training is true.
handleStartTraining ==
  /\ ~mt_training
  /\ mt_posts < MaxTasks
  /\ IF Len(mt_selectedAssets) = 0
     THEN /\ mt_toast' = "Please select at least one asset"
          /\ UNCHANGED << mt_training, mt_results, mt_posts, mt_net >>
     ELSE /\ mt_training' = TRUE
          /\ mt_results' = NULL
          /\ mt_posts' = mt_posts + Cardinality(mt_TrainRequests(mt_posts))
          /\ mt_net' = mt_net \cup mt_TrainRequests(mt_posts)
          /\ UNCHANGED mt_toast
  /\ mt_Frame
  /\ UNCHANGED << mt_assetType, mt_selectedAssets, mt_taskId, mt_status,
                  mt_interval, mt_statusRequests, mt_statusResponses, srv_task >>

\* POST /models/train (train(symbols, assetClass, dateRange) -> taskId): the
\* task is created queued and its id returned, or the request fails with or
\* without a structured error
srv_train ==
  \E m \in mt_net :
    /\ m.kind = "train"
    /\ \/ /\ srv_task' = [ srv_task EXCEPT ![m.task] = "queued" ]
          /\ mt_net' = (mt_net \ {m}) \cup
               { [ kind |-> "task_id", task |-> m.task, detail |-> NONE ] }
       \/ /\ \E d \in { "InvalidRequest", NONE } :
               mt_net' = (mt_net \ {m}) \cup
                 { [ kind |-> "train_error", task |-> m.task, detail |-> d ] }
          /\ UNCHANGED srv_task
    /\ mt_Frame
    /\ UNCHANGED << mt_assetType, mt_selectedAssets, mt_training, mt_taskId,
                    mt_status, mt_results, mt_toast, mt_posts, mt_interval,
                    mt_statusRequests, mt_statusResponses >>

\* the worker of a task: queued -> running -> completed | failed; terminal
\* states are final
srv_worker(k) ==
  /\ \/ srv_task[k] = "queued" /\ srv_task' = [ srv_task EXCEPT ![k] = "running" ]
     \/ /\ srv_task[k] = "running"
        /\ \E s \in Terminal : srv_task' = [ srv_task EXCEPT ![k] = s ]
  /\ mt_Frame
  /\ UNCHANGED << mt_assetType, mt_selectedAssets, mt_training, mt_taskId,
                  mt_status, mt_results, mt_toast, mt_posts, mt_net,
                  mt_interval, mt_statusRequests, mt_statusResponses >>

\* handleStartTraining after its await (lines 93-101): the task id is stored
\* and pollTrainingStatus(newTaskId) sets its interval (lines 104-105, 124);
\* or the error is toasted and training reset
handleStartTraining_resume ==
  \E m \in mt_net :
    /\ m.kind \in { "task_id", "train_error" }
    /\ mt_net' = mt_net \ {m}
    /\ IF m.kind = "task_id"
       THEN /\ mt_taskId' = m.task
            /\ mt_interval' = [ mt_interval EXCEPT ![m.task] = TRUE ]
            /\ UNCHANGED << mt_toast, mt_training >>
       ELSE /\ mt_toast' = IF m.detail # NONE THEN m.detail
                           ELSE "Failed to start training"
            /\ mt_training' = FALSE
            /\ UNCHANGED << mt_taskId, mt_interval >>
    /\ mt_Frame
    /\ UNCHANGED << mt_assetType, mt_selectedAssets, mt_status, mt_results,
                    mt_posts, mt_statusRequests, mt_statusResponses, srv_task >>

\* a variant of mt_StatusUrlId that reads the task id of the render in which
\* the polling was started (the task before) instead of the parameter
mt_StatusUrlId_stale(id) == id - 1

\* the task id in the URL of GET /models/status/${id} (line 107): the
\* parameter of pollTrainingStatus
mt_StatusUrlId(id) == id

\* the interval callback of pollTrainingStatus(id) up to its await (lines
\* 105-107): every 2 seconds, whether or not earlier requests were answered
pollTrainingStatus_tick(id) ==
  /\ mt_interval[id]
  /\ mt_InFlight < MaxInFlight
  /\ mt_statusRequests' = [ mt_statusRequests EXCEPT ![mt_StatusUrlId(id)] = @ + 1 ]
  /\ mt_Frame
  /\ UNCHANGED << mt_assetType, mt_selectedAssets, mt_training, mt_taskId,
                  mt_status, mt_results, mt_toast, mt_posts, mt_net,
                  mt_interval, mt_statusResponses, srv_task >>

\* GET /models/status/{task_id}: the task's current status, or a failure
srv_status(id) ==
  /\ mt_statusRequests[id] > 0
  /\ mt_statusRequests' = [ mt_statusRequests EXCEPT ![id] = @ - 1 ]
  /\ \E reply \in { srv_task[id], "error" } :
       mt_statusResponses' = [ mt_statusResponses EXCEPT ![<< id, reply >>] = @ + 1 ]
  /\ mt_Frame
  /\ UNCHANGED << mt_assetType, mt_selectedAssets, mt_training, mt_taskId,
                  mt_status, mt_results, mt_toast, mt_posts, mt_net,
                  mt_interval, srv_task >>

\* a variant of mt_StopsPolling that forgets clearInterval on failed
mt_StopsPolling_completed(reply) == reply = "completed"

\* the statuses on which the callback does clearInterval(interval) (lines
\* 110 and 115)
mt_StopsPolling(reply) == reply \in { "completed", "failed" }

\* the interval callback of pollTrainingStatus(id) after its await (lines
\* 108-123), on a response with status reply; a failed request is only logged.
\* The status and the results remember the task they are about.
pollTrainingStatus_resume(id, reply) ==
  /\ mt_statusResponses[<< id, reply >>] > 0
  /\ mt_statusResponses' = [ mt_statusResponses EXCEPT ![<< id, reply >>] = @ - 1 ]
  /\ IF reply = "error"
     THEN UNCHANGED << mt_status, mt_interval, mt_results, mt_training, mt_toast >>
     ELSE /\ mt_status' = [ task |-> id, status |-> reply ]
          /\ mt_interval' = IF mt_StopsPolling(reply)
                            THEN [ mt_interval EXCEPT ![id] = FALSE ]
                            ELSE mt_interval
          /\ IF reply = "completed"
             THEN /\ mt_results' = [ task |-> id ]
                  /\ mt_training' = FALSE
                  /\ UNCHANGED mt_toast
             ELSE IF reply = "failed"
             THEN /\ mt_training' = FALSE
                  /\ mt_toast' = "Training failed"
                  /\ UNCHANGED mt_results
             ELSE UNCHANGED << mt_results, mt_training, mt_toast >>
  /\ mt_Frame
  /\ UNCHANGED << mt_assetType, mt_selectedAssets, mt_taskId, mt_posts,
                  mt_net, mt_statusRequests, srv_task >>

mt_Next ==
  \/ \E t \in AssetTypes : mt_setAssetType(t)
  \/ \E a \in Catalog : mt_addAsset(a)
  \/ \E symbol \in { "AAPL", "MSFT", "GOOGL" } : mt_removeAsset(symbol)
  \/ handleStartTraining
  \/ srv_train
  \/ \E k \in Tasks : srv_worker(k)
  \/ handleStartTraining_resume
  \/ \E id \in Tasks : pollTrainingStatus_tick(id)
  \/ \E id \in Tasks : srv_status(id)
  \/ \E id \in Tasks, reply \in StatusReplies : pollTrainingStatus_resume(id, reply)

\* ======================================================================
\* Optimizer page: the debounced asset search (Optimizer.js lines 27-64)
\* ======================================================================
\* what can be typed into the search input
Queries == { "", " ", "A", "M" }

\* the first letter of a catalog symbol
FirstLetter(symbol) == IF symbol = "MSFT" THEN "M" ELSE "A"

\* POST /assets/search: the assets of the asset class whose symbol starts
\* with the query
srv_search(query, assetType) ==
  { a \in Catalog : a.type = assetType /\ FirstLetter(a.symbol) = query }

\* useState initial values, after the effect of the first render
sr_Init ==
  /\ sr_searchQuery = ""
  /\ sr_searchResults = {}
  /\ sr_searching = FALSE
  /\ sr_timer = NULL
  /\ sr_sent = 0
  /\ sr_net = {}

\* the search input (onChange, line 144); a new query re-runs the debounce
\* effect
sr_setSearchQuery(query) ==
  /\ query # sr_searchQuery
  /\ sr_searchQuery' = query
  /\ sr_Effect(query, opt_assetType)
  /\ sr_Frame
  /\ UNCHANGED << sr_searching, sr_sent, sr_net, opt_vars >>

\* the debounce timer fires after 300 ms: handleSearch up to its await
\* (lines 47-57), with the query and asset type of the render that set the
\* timer
handleSearch ==
  /\ sr_timer # NULL
  /\ sr_timer' = NULL
  /\ IF Trim(sr_timer.query) = ""
     THEN /\ sr_searchResults' = {}
          /\ UNCHANGED << sr_searching, sr_sent, sr_net >>
     ELSE /\ sr_sent < MaxSearches
          /\ sr_searching' = TRUE
          /\ sr_sent' = sr_sent + 1
          /\ sr_net' = sr_net \cup
               { [ kind |-> "search", id |-> sr_sent + 1,
                   query |-> sr_timer.query,
                   asset_type |-> sr_timer.asset_type, assets |-> {} ] }
          /\ UNCHANGED sr_searchResults
  /\ sr_Frame
  /\ UNCHANGED << sr_searchQuery, opt_vars >>

\* POST /assets/search answers with the assets found, or fails
srv_search_answer ==
  \E m \in sr_net :
    /\ m.kind = "search"
    /\ \/ sr_net' = (sr_net \ {m}) \cup
            { [ m EXCEPT !.kind = "assets",
                         !.assets = srv_search(m.query, m.asset_type) ] }
       \/ sr_net' = (sr_net \ {m}) \cup { [ m EXCEPT !.kind = "error" ] }
    /\ sr_Frame
    /\ UNCHANGED << sr_searchQuery, sr_searchResults, sr_searching, sr_timer,
                    sr_sent, opt_vars >>

\* handleSearch after its await (lines 58-63)
handleSearch_resume ==
  \E m \in sr_net :
    /\ m.kind \in { "assets", "error" }
    /\ sr_net' = sr_net \ {m}
    /\ IF m.kind = "assets"
       THEN /\ sr_searchResults' = m.assets
            /\ UNCHANGED << opt_toast, opt_toastSeq >>
       ELSE /\ opt_toast' = "Search failed"
            /\ opt_toastSeq' = 1 - opt_toastSeq
            /\ UNCHANGED sr_searchResults
    /\ sr_searching' = FALSE
    /\ sr_Frame
    /\ UNCHANGED << sr_searchQuery, sr_timer, sr_sent >>
    /\ UNCHANGED << opt_assetType, opt_selectedAssets, opt_riskTolerance,
                    opt_rebalanceFreq, opt_startDate, opt_endDate,
                    opt_optimizing, opt_results, opt_net >>

sr_Next ==
  \/ \E t \in AssetTypes : opt_setAssetType(t)
  \/ \E query \in Queries : sr_setSearchQuery(query)
  \/ handleSearch
  \/ srv_search_answer
  \/ handleSearch_resume

\* ======================================================================
\* AuthProvider (AuthContext.js), the routes (App) and the Auth page
\* ======================================================================
ProtectedPaths == { "/dashboard", "/portfolio", "/kyc" }
PhoneNumbers == { "", "+1", "+91" }
OtpCodes == { "", "111111", "222222" }
\* the code the backend sends
SentCode == "111111"
GuestUser == "guest"
RegisteredUser == "user"

\* what localStorage can hold when the application is loaded
StoredSessions ==
  { [ access_token |-> t, refresh_token |-> t, guest_mode |-> g ] :
      t \in {0, 1}, g \in { NONE, "true" } }

\* a request or response of one of the AuthProvider's functions; live tells
\* whether the Auth page instance that awaits it is still mounted
AuthMessage(kind, token, phone, code, valid, live) ==
  [ kind |-> kind, token |-> token, phone_number |-> phone, code |-> code,
    valid |-> valid, live |-> live ]

\* the state updates of one batch followed by the effect on [token, isGuest]
\* (lines 15-24): a changed token or isGuest starts fetchUser, sets the guest
\* user or ends loading
au_Commit(token, user, isGuest, loading, net) ==
  LET runs == token # au_token \/ isGuest # au_isGuest IN
  /\ au_token' = token
  /\ au_isGuest' = isGuest
  /\ au_user' = IF runs /\ token = 0 /\ isGuest THEN GuestUser ELSE user
  /\ au_loading' = IF runs /\ token = 0 THEN FALSE ELSE loading
  /\ au_net' = IF runs /\ token # 0
               THEN net \cup { AuthMessage("me", token, "", "", FALSE, FALSE) }
               ELSE net

\* the Auth page's useState initial values (lines 12-21)
ap_Mount ==
  /\ ap_isLogin' = TRUE
  /\ ap_step' = 1
  /\ ap_phone_number' = ""
  /\ ap_otp' = ""
  /\ ap_loading' = FALSE

\* the responses awaited by an Auth page instance that is unmounted
Orphaned(net) == { [ m EXCEPT !.live = FALSE ] : m \in net }

\* the application loaded on path with localStorage as stored: useState
\* initial values (lines 10-13) and the effect of the first render
au_Load(stored, path) ==
  /\ localStorage = stored
  /\ rt_path = path
  /\ au_token = stored.access_token
  /\ au_isGuest = (stored.guest_mode = "true")
  /\ au_user = IF stored.access_token = 0 /\ stored.guest_mode = "true"
               THEN GuestUser ELSE NONE
  /\ au_loading = (stored.access_token # 0)
  /\ au_net = IF stored.access_token # 0
              THEN { AuthMessage("me", stored.access_token, "", "", FALSE, FALSE) }
              ELSE {}
  /\ ap_isLogin = TRUE
  /\ ap_step = 1
  /\ ap_phone_number = ""
  /\ ap_otp = ""
  /\ ap_loading = FALSE
  /\ srv_issued = 1
  /\ srv_otpSent = {}

\* a first visit: nothing stored, the Auth page shown
au_Init ==
  au_Load([ access_token |-> 0, refresh_token |-> 0, guest_mode |-> NONE ], "/auth")

\* the application loaded with any stored session, on the Auth page or on the
\* dashboard
au_LoadInit ==
  \E stored \in StoredSessions, path \in { "/auth", "/dashboard" } :
    au_Load(stored, path)

\* a variant of ProtectedRoute without the loading test
ProtectedRoute_noSpinner(user, loading, children) ==
  IF user = NONE THEN "Navigate /auth" ELSE children

\* ProtectedRoute (Alerts.js lines 347-361)
ProtectedRoute(user, loading, children) ==
  IF loading THEN "spinner"
  ELSE IF user = NONE THEN "Navigate /auth"
  ELSE children

\* what the Routes render for the location (lines 449-460); a page is named
\* by its path
rt_Element ==
  IF rt_path = "/auth" THEN "/auth"
  ELSE ProtectedRoute(au_user, au_loading, rt_path)

\* <Navigate to="/auth" replace /> rendered by ProtectedRoute: the Auth page
\* is mounted
rt_Navigate ==
  /\ rt_Element = "Navigate /auth"
  /\ rt_path' = "/auth"
  /\ au_Frame
  /\ UNCHANGED << au_user, au_loading, au_token, au_isGuest, localStorage,
                  ap_isLogin, ap_step, ap_phone_number, ap_otp, ap_loading,
                  au_net, srv_issued, srv_otpSent >>

\* the links of Navigation (lines 363-372, 393-418), shown off the Auth page
\* while user is set
rt_Link(path) ==
  /\ rt_path # "/auth"
  /\ au_user # NONE
  /\ rt_path' = path
  /\ au_Frame
  /\ UNCHANGED << au_user, au_loading, au_token, au_isGuest, localStorage,
                  ap_isLogin, ap_step, ap_phone_number, ap_otp, ap_loading,
                  au_net, srv_issued, srv_otpSent >>

\* the effects of the Portfolio page (Portfolio.js lines 49-60) and of the
\* KYC page on [token]: a guest or a session without token is sent to /auth
page_Effect ==
  /\ rt_Element = rt_path
  /\ \/ rt_path = "/portfolio" /\ (au_isGuest \/ au_token = 0)
     \/ rt_path = "/kyc" /\ au_token = 0
  /\ rt_path' = "/auth"
  /\ au_Frame
  /\ UNCHANGED << au_user, au_loading, au_token, au_isGuest, localStorage,
                  ap_isLogin, ap_step, ap_phone_number, ap_otp, ap_loading,
                  au_net, srv_issued, srv_otpSent >>

\* a variant of logout_Storage that leaves guest_mode stored
logout_Storage_keepsGuest(stored) ==
  [ stored EXCEPT !.access_token = 0, !.refresh_token = 0 ]

\* localStorage after logout's three removeItem calls (lines 71-73)
logout_Storage(stored) ==
  [ access_token |-> 0, refresh_token |-> 0, guest_mode |-> NONE ]

\* logout (lines 70-77), in a batch that leaves loading and the requests in
\* flight as given
logout(loading, net) ==
  /\ localStorage' = logout_Storage(localStorage)
  /\ au_Commit(0, NONE, FALSE, loading, net)

\* the logout button of Navigation (lines 421-428)
logout_click ==
  /\ rt_path # "/auth"
  /\ au_user # NONE
  /\ logout(au_loading, au_net)
  /\ au_Frame
  /\ UNCHANGED << rt_path, ap_isLogin, ap_step, ap_phone_number, ap_otp,
                  ap_loading, srv_issued, srv_otpSent >>

\* GET /auth/me: the user of the token, or a failure (token rejected)
srv_me ==
  \E m \in au_net :
    /\ m.kind = "me"
    /\ \E k \in { "me_ok", "me_failed" } :
         au_net' = (au_net \ {m}) \cup { [ m EXCEPT !.kind = k ] }
    /\ au_Frame
    /\ UNCHANGED << au_user, au_loading, au_token, au_isGuest, localStorage,
                    rt_path, ap_isLogin, ap_step, ap_phone_number, ap_otp,
                    ap_loading, srv_issued, srv_otpSent >>

\* fetchUser after its await (lines 31-37): the user is stored, or logout is
\* called; loading ends either way
fetchUser_resume ==
  \E m \in au_net :
    /\ m.kind \in { "me_ok", "me_failed" }
    /\ IF m.kind = "me_ok"
       THEN /\ au_Commit(au_token, RegisteredUser, au_isGuest, FALSE, au_net \ {m})
            /\ UNCHANGED localStorage
       ELSE logout(FALSE, au_net \ {m})
    /\ au_Frame
    /\ UNCHANGED << rt_path, ap_isLogin, ap_step, ap_phone_number, ap_otp,
                    ap_loading, srv_issued, srv_otpSent >>

\* handleSkip (part_001 lines 66-71): guest_mode is stored and the router
\* leaves the Auth page
handleSkip ==
  /\ rt_path = "/auth"
  /\ localStorage' = [ localStorage EXCEPT !.guest_mode = "true" ]
  /\ rt_path' = "/dashboard"
  /\ ap_Mount
  /\ au_net' = Orphaned(au_net)
  /\ au_Frame
  /\ UNCHANGED << au_user, au_loading, au_token, au_isGuest, srv_issued,
                  srv_otpSent >>

\* the toggle-mode button (lines 184-193)
ap_toggleMode ==
  /\ rt_path = "/auth"
  /\ ap_isLogin' = ~ap_isLogin
  /\ ap_step' = 1
  /\ au_Frame
  /\ UNCHANGED << au_user, au_loading, au_token, au_isGuest, localStorage,
                  rt_path, ap_phone_number, ap_otp, ap_loading, au_net,
                  srv_issued, srv_otpSent >>

\* the phone input, shown in step 1 of the register mode (lines 135-149)
ap_setPhoneNumber(phone) ==
  /\ rt_path = "/auth"
  /\ ~ap_isLogin /\ ap_step = 1
  /\ phone # ap_phone_number
  /\ ap_phone_number' = phone
  /\ au_Frame
  /\ UNCHANGED << au_user, au_loading, au_token, au_isGuest, localStorage,
                  rt_path, ap_isLogin, ap_step, ap_otp, ap_loading, au_net,
                  srv_issued, srv_otpSent >>

\* the OTP input, shown in step 2 (lines 153-170)
ap_setOtp(code) ==
  /\ rt_path = "/auth"
  /\ ap_step = 2
  /\ code # ap_otp
  /\ ap_otp' = code
  /\ au_Frame
  /\ UNCHANGED << au_user, au_loading, au_token, au_isGuest, localStorage,
                  rt_path, ap_isLogin, ap_step, ap_phone_number, ap_loading,
                  au_net, srv_issued, srv_otpSent >>

\* handleSubmit up to its first await (lines 26-43): login, sendOTP or
\* verifyOTP is called.  The submit button is disabled while loading, and the
\* OTP input is required.
handleSubmit ==
  /\ rt_path = "/auth"
  /\ ~ap_loading
  /\ (~ap_isLogin /\ ap_step = 2) => ap_otp # ""
  /\ Cardinality(au_net) < MaxPending
  /\ ap_loading' = TRUE
  /\ au_net' = au_net \cup
       { IF ap_isLogin
         THEN AuthMessage("login", 0, "", "", FALSE, TRUE)
         ELSE IF ap_step = 1
         THEN AuthMessage("send-otp", 0, ap_phone_number, "", FALSE, TRUE)
         ELSE AuthMessage("verify-otp", 0, ap_phone_number, ap_otp, FALSE, TRUE) }
  /\ au_Frame
  /\ UNCHANGED << au_user, au_loading, au_token, au_isGuest, localStorage,
                  rt_path, ap_isLogin, ap_step, ap_phone_number, ap_otp,
                  srv_issued, srv_otpSent >>

\* POST /auth/login and POST /auth/register: a new access token and the
\* user, or a failure
srv_auth ==
  \E m \in au_net :
    /\ m.kind \in { "login", "register" }
    /\ \/ /\ srv_issued < MaxTokens
          /\ srv_issued' = srv_issued + 1
          /\ au_net' = (au_net \ {m}) \cup
               { [ m EXCEPT !.kind = IF m.kind = "login" THEN "login_ok"
                                     ELSE "register_ok",
                            !.token = srv_issued + 1 ] }
       \/ /\ au_net' = (au_net \ {m}) \cup
               { [ m EXCEPT !.kind = IF m.kind = "login" THEN "login_failed"
                                     ELSE "register_failed" ] }
          /\ UNCHANGED srv_issued
    /\ au_Frame
    /\ UNCHANGED << au_user, au_loading, au_token, au_isGuest, localStorage,
                    rt_path, ap_isLogin, ap_step, ap_phone_number, ap_otp,
                    ap_loading, srv_otpSent >>

\* POST /auth/send-otp: the code is sent to the phone number, or the request
\* fails
srv_sendOtp ==
  \E m \in au_net :
    /\ m.kind = "send-otp"
    /\ \/ /\ srv_otpSent' = srv_otpSent \cup { m.phone_number }
          /\ au_net' = (au_net \ {m}) \cup { [ m EXCEPT !.kind = "otp_sent" ] }
       \/ /\ au_net' = (au_net \ {m}) \cup { [ m EXCEPT !.kind = "otp_failed" ] }
          /\ UNCHANGED srv_otpSent
    /\ au_Frame
    /\ UNCHANGED << au_user, au_loading, au_token, au_isGuest, localStorage,
                    rt_path, ap_isLogin, ap_step, ap_phone_number, ap_otp,
                    ap_loading, srv_issued >>

\* POST /auth/verify-otp: valid tells whether the code is the one sent to the
\* phone number; or the request fails
srv_verifyOtp ==
  \E m \in au_net :
    /\ m.kind = "verify-otp"
    /\ \/ au_net' = (au_net \ {m}) \cup
            { [ m EXCEPT !.kind = "verified",
                         !.valid = ( /\ m.phone_number \in srv_otpSent
                                     /\ m.code = SentCode ) ] }
       \/ au_net' = (au_net \ {m}) \cup { [ m EXCEPT !.kind = "verify_failed" ] }
    /\ au_Frame
    /\ UNCHANGED << au_user, au_loading, au_token, au_isGuest, localStorage,
                    rt_path, ap_isLogin, ap_step, ap_phone_number, ap_otp,
                    ap_loading, srv_issued, srv_otpSent >>

\* a variant of ap_Registers that ignores the verification result
ap_Registers_unverified(otpResult) == TRUE

\* whether handleSubmit goes on to register (line 44): otpResult.valid
ap_Registers(otpResult) == otpResult.valid

\* login and register after their await (AuthContext.js lines 42-49, 60-67)
\* and handleSubmit after them (part_001 lines 33-34, 52-53, 61): the tokens
\* are stored, token and user set, and the router leaves the Auth page
handleSubmit_signedIn ==
  \E m \in au_net :
    /\ m.kind \in { "login_ok", "register_ok" }
    /\ localStorage' = [ localStorage EXCEPT !.access_token = m.token,
                                              !.refresh_token = m.token ]
    /\ au_Commit(m.token, RegisteredUser, au_isGuest, au_loading,
                 Orphaned(au_net \ {m}))
    /\ rt_path' = IF m.kind = "login_ok" THEN "/dashboard" ELSE "/kyc"
    /\ ap_Mount
    /\ au_Frame
    /\ UNCHANGED << srv_issued, srv_otpSent >>

\* handleSubmit after sendOTP or verifyOTP (part_001 lines 38-57) and after
\* a failed request (lines 58-62); an unmounted Auth page keeps no state
handleSubmit_resume ==
  \E m \in au_net :
    /\ m.kind \in { "otp_sent", "verified", "login_failed", "otp_failed",
                    "verify_failed", "register_failed" }
    /\ IF m.kind = "verified" /\ ap_Registers(m)
       THEN /\ au_net' = (au_net \ {m}) \cup
                 { AuthMessage("register", 0, m.phone_number, m.code, m.valid,
                               m.live) }
            /\ UNCHANGED << ap_step, ap_loading >>
       ELSE /\ au_net' = au_net \ {m}
            /\ ap_step' = IF m.live /\ m.kind = "otp_sent" THEN 2 ELSE ap_step
            /\ ap_loading' = IF m.live THEN FALSE ELSE ap_loading
    /\ au_Frame
    /\ UNCHANGED << au_user, au_loading, au_token, au_isGuest, localStorage,
                    rt_path, ap_isLogin, ap_phone_number, ap_otp, srv_issued,
                    srv_otpSent >>

\* a session: loading the application, logging in, skipping, logging out
au_Next ==
  \/ rt_Navigate
  \/ \E path \in ProtectedPaths : rt_Link(path)
  \/ page_Effect
  \/ logout_click
  \/ srv_me
  \/ fetchUser_resume
  \/ handleSkip
  \/ handleSubmit
  \/ srv_auth
  \/ handleSubmit_signedIn
  \/ handleSubmit_resume

\* the Auth page: logging in and registering with an OTP
ap_Next ==
  \/ rt_Navigate
  \/ logout_click
  \/ srv_me
  \/ fetchUser_resume
  \/ ap_toggleMode
  \/ \E phone \in PhoneNumbers : ap_setPhoneNumber(phone)
  \/ \E code \in OtpCodes : ap_setOtp(code)
  \/ handleSubmit
  \/ srv_auth
  \/ srv_sendOtp
  \/ srv_verifyOtp
  \/ handleSubmit_signedIn
  \/ handleSubmit_resume

\* ======================================================================
\* Portfolio page: the value history (Portfolio.js lines 87-98, 368-388)
\* ======================================================================
\* the historyDays that the fetchValueHistory called by the selector's timer
\* closes over (line 377): that of the render in which onValueChange was
\* created, the window shown before the selection
vh_ClosureDays(historyDays, val) == historyDays

\* the window selector's onValueChange (lines 375-378), shown while a history
\* is held (line 368): setHistoryDays(parseInt(val)) and a 100 ms timer
vh_onValueChange(val) ==
  /\ pf_valueHistory # NULL
  /\ val # pf_historyDays
  /\ Cardinality(pf_historyTimers) + Cardinality(pf_historyNet) < MaxTimers
  /\ pf_historyDays' = val
  /\ pf_historyTimers' = pf_historyTimers \cup
       { [ days |-> vh_ClosureDays(pf_historyDays, val),
           portfolio_id |-> pf_currentPortfolio ] }
  /\ vh_Frame
  /\ UNCHANGED << pf_valueHistory, pf_historyNet, pf_vars >>

\* a timer of the selector fires: fetchValueHistory up to its await
vh_timeout ==
  \E timer \in pf_historyTimers :
    /\ pf_historyTimers' = pf_historyTimers \ {timer}
    /\ pf_historyNet' = pf_historyNet \cup
         { vh_Request(timer.days, timer.portfolio_id) }
    /\ vh_Frame
    /\ UNCHANGED << pf_historyDays, pf_valueHistory, pf_vars >>

\* GET /portfolio/value-history: the history of the portfolio over the
\* window asked for, which can be empty; or a failure
srv_valueHistory ==
  \E m \in pf_historyNet :
    /\ m.kind = "request"
    /\ \E k \in { "history", "empty", "error" } :
         pf_historyNet' = (pf_historyNet \ {m}) \cup { [ m EXCEPT !.kind = k ] }
    /\ vh_Frame
    /\ UNCHANGED << pf_historyDays, pf_valueHistory, pf_historyTimers, pf_vars >>

\* fetchValueHistory after its await (lines 94-97): the history replaces
\* valueHistory; a failure is only logged
fetchValueHistory_resume ==
  \E m \in pf_historyNet :
    /\ m.kind # "request"
    /\ pf_historyNet' = pf_historyNet \ {m}
    /\ pf_valueHistory' =
         CASE m.kind = "history" ->
                [ days |-> m.days, portfolio_id |-> m.portfolio_id ]
           [] m.kind = "empty" -> NULL
           [] OTHER -> pf_valueHistory
    /\ vh_Frame
    /\ UNCHANGED << pf_historyDays, pf_historyTimers, pf_vars >>

vh_Next ==
  \/ \E p \in Portfolios : pf_setCurrentPortfolio(p)
  \/ \E val \in DayWindows : vh_onValueChange(val)
  \/ vh_timeout
  \/ srv_valueHistory
  \/ fetchValueHistory_resume

\* ======================================================================
\* Specifications
\* ======================================================================
\* ======================================================================
\* ModelTraining page: the results of a completed task
\* ======================================================================
MaxModels == 2
\* the models a training can compare, in lexicographic order of their names
ModelNames == << "Linear Regression", "Random Forest", "XGBoost" >>
\* the values a metric takes here
MetricValues == { 1, 2 }

\* the position of a model name in lexicographic order
NameRank(name) == CHOOSE i \in 1..Len(ModelNames) : ModelNames[i] = name

\* results.models: an object with one entry of metrics per model name, its
\* entries in the order of its keys
ModelLists ==
  { ms \in UNION { [ 1..n -> [ name : Range(ModelNames),
                              test_r2 : MetricValues,
                              test_mse : MetricValues ] ] : n \in 1..MaxModels } :
      \A i, j \in 1..Len(ms) : i # j => ms[i].name # ms[j].name }

\* a is a better model than b: higher test R2, then lower test MSE, then the
\* lexicographically smaller name
Better(a, b) ==
  \/ a.test_r2 > b.test_r2
  \/ a.test_r2 = b.test_r2 /\ a.test_mse < b.test_mse
  \/ a.test_r2 = b.test_r2 /\ a.test_mse = b.test_mse
       /\ NameRank(a.name) < NameRank(b.name)

\* best_model of the training pipeline
srv_bestModel(models) ==
  models[CHOOSE i \in 1..Len(models) :
           \A j \in 1..Len(models) : j # i => Better(models[i], models[j])].name

\* no results held
cmp_Init ==
  /\ cmp_models = <<>>
  /\ cmp_bestModel = NONE
  /\ cmp_rows = <<>>

\* the page holding the results of a completed task (setResults(data.results),
\* line 112), before it has rendered them
cmp_ResultsInit ==
  /\ cmp_models \in ModelLists
  /\ cmp_bestModel = srv_bestModel(cmp_models)
  /\ cmp_rows = <<>>

RECURSIVE InsertByR2(_, _)
\* e put into the list sorted, behind every entry that does not come after it
\* under the comparator (a, b) => b[1].test_r2 - a[1].test_r2
InsertByR2(sorted, e) ==
  IF sorted = <<>> THEN << e >>
  ELSE IF Head(sorted).test_r2 >= e.test_r2
       THEN << Head(sorted) >> \o InsertByR2(Tail(sorted), e)
       ELSE << e >> \o sorted

RECURSIVE SortByR2(_)
\* entries.sort((a, b) => b[1].test_r2 - a[1].test_r2) (line 391):
\* Array.prototype.sort is stable, entries that compare equal keep their order
SortByR2(entries) ==
  IF entries = <<>> THEN <<>>
  ELSE InsertByR2(SortByR2(SubSeq(entries, 1, Len(entries) - 1)),
                  entries[Len(entries)])

\* the rows of the Model Comparison list (lines 391-423): the sorted entries,
\* the badge BEST on those whose name is results.best_model.name (line 399)
cmp_render ==
  /\ cmp_models # <<>>
  /\ cmp_rows = <<>>
  /\ cmp_rows' =
       [ i \in 1..Len(cmp_models) |->
           [ name |-> SortByR2(cmp_models)[i].name,
             test_r2 |-> SortByR2(cmp_models)[i].test_r2,
             best |-> SortByR2(cmp_models)[i].name = cmp_bestModel ] ]
  /\ cmp_Frame
  /\ UNCHANGED << cmp_models, cmp_bestModel >>

cmp_Next == cmp_render

vars == << opt_vars, pf_vars, bt_vars, mt_vars, cmp_vars, sr_vars, au_vars,
          vh_vars >>

Init == opt_Init /\ pf_Init /\ bt_Init /\ mt_Init /\ cmp_Init /\ sr_Init /\ au_Init /\ vh_Init

InitComparison == opt_Init /\ pf_Init /\ bt_Init /\ mt_Init /\ cmp_ResultsInit /\ sr_Init /\ au_Init /\ vh_Init
SpecComparison == InitComparison /\ [][cmp_Next]_vars

\* the asset search of the Optimizer page
SpecSearch == Init /\ [][sr_Next]_vars

\* the AuthProvider, the routes and the Auth page, for every stored session
InitAuth == opt_Init /\ pf_Init /\ bt_Init /\ mt_Init /\ cmp_Init /\ sr_Init /\ au_LoadInit /\ vh_Init
SpecAuth == InitAuth /\ [][au_Next]_vars

\* the Auth page on a first visit
SpecRegister == Init /\ [][ap_Next]_vars

\* the value history of the Portfolio page
SpecHistory == Init /\ [][vh_Next]_vars

\* the Optimizer page alone
SpecOptimizer == Init /\ [][opt_Next]_vars

\* the Portfolio page alone
SpecPortfolio == Init /\ [][pf_Next]_vars

\* the Backtesting page alone, run on every text typed into its inputs
\* the ModelTraining page and the backend's training tasks
SpecTraining == Init /\ [][mt_Next]_vars

InitOptimizerConfig == opt_ConfigInit /\ pf_Init /\ bt_Init /\ mt_Init /\ cmp_Init /\ sr_Init /\ au_Init /\ vh_Init
SpecOptimizerConfig == InitOptimizerConfig /\ [][opt_ConfigNext]_vars

\* the two pages that post a computation request and await its answer
RequestsNext ==
  \/ handleOptimize
  \/ opt_Server
  \/ handleOptimize_resume
  \/ handleRunBacktest
  \/ bt_Server
  \/ handleRunBacktest_resume

SpecRequests == InitOptimizerConfig /\ [][RequestsNext]_vars

\* the ModelTraining page with the selection left as it is
mt_PollNext ==
  \/ handleStartTraining
  \/ srv_train
  \/ \E k \in Tasks : srv_worker(k)
  \/ handleStartTraining_resume
  \/ \E id \in Tasks : pollTrainingStatus_tick(id)
  \/ \E id \in Tasks : srv_status(id)
  \/ \E id \in Tasks, reply \in StatusReplies : pollTrainingStatus_resume(id, reply)

\* GET /models/status answered with the task's status
srv_status_ok(id) ==
  /\ srv_status(id)
  /\ mt_statusResponses'[<< id, "error" >>] = mt_statusResponses[<< id, "error" >>]

\* requests are answered and responses delivered; a started task runs on to
\* a terminal state; setInterval keeps firing while the interval is set; a
\* status request that is repeated succeeds in the end
mt_Fairness ==
  /\ WF_vars(srv_train)
  /\ WF_vars(handleStartTraining_resume)
  /\ \A k \in Tasks : WF_vars(srv_worker(k))
  /\ \A id \in Tasks : SF_vars(pollTrainingStatus_tick(id))
  /\ \A id \in Tasks : SF_vars(srv_status_ok(id))
  /\ \A id \in Tasks : WF_vars(srv_status(id))
  /\ \A id \in Tasks, reply \in StatusReplies :
       WF_vars(pollTrainingStatus_resume(id, reply))

SpecPolling == Init /\ [][mt_PollNext]_vars /\ mt_Fairness

InitBacktest == opt_Init /\ pf_Init /\ bt_TypedInit /\ mt_Init /\ cmp_Init /\ sr_Init /\ au_Init /\ vh_Init

SpecBacktest == InitBacktest /\ [][bt_Next]_vars

\* ======================================================================
\* Claims
\* ======================================================================

\* C1: handleOptimize invoked with fewer than 2 selected assets issues no
\* POST /optimize, reports an error and leaves optimizing and results as they
\* were; and every optimize request in flight or answered carries at least 2
\* symbols.
C1_RejectsFewerThanTwo ==
  /\ [](\A m \in opt_net : Len(m.req.symbols) >= 2)
  /\ [][ (handleOptimize /\ Len(opt_selectedAssets) < 2) =>
           /\ opt_net' = opt_net
           /\ opt_toast' = "Select at least 2 assets"
           /\ opt_toastSeq' # opt_toastSeq
           /\ opt_optimizing' = opt_optimizing
           /\ opt_results' = opt_results ]_vars

\* the rejection has happened: the error is shown for a selection of one asset
C1_Witness ==
  /\ Len(opt_selectedAssets) = 1
  /\ opt_toast = "Select at least 2 assets"
  /\ opt_net = {}

\* C2: handleAnalyze invoked with fewer than 2 holdings issues no
\* POST /portfolio/analyze, reports an error and leaves analysis and analyzing
\* as they were; and every analyze request in flight or answered was made
\* with at least 2 holdings.
C2_RejectsFewerThanTwoHoldings ==
  /\ [](\A m \in pf_net : Cardinality(m.holdings) >= 2)
  /\ [][ (handleAnalyze /\ Cardinality(pf_holdings) < 2) =>
           /\ pf_net' = pf_net
           /\ pf_toast' = "Need at least 2 holdings for analysis"
           /\ pf_toastSeq' # pf_toastSeq
           /\ pf_analysis' = pf_analysis
           /\ pf_analyzing' = pf_analyzing ]_vars

\* the rejection has happened with one holding, after an earlier analysis of
\* two holdings was stored and kept
C2_Witness ==
  /\ Cardinality(pf_holdings) = 1
  /\ pf_toast = "Need at least 2 holdings for analysis"
  /\ pf_analysis # NULL
  /\ pf_net = {}

\* C3: every backtest request that is sent carries weights whose sum is 1
\* within 1e-6, and handleRunBacktest invoked on a weight list whose sum
\* deviates from 1 by more than 1e-6 issues no POST /backtest.
C3_SentWeightsSumToOne ==
  /\ [][ (handleRunBacktest /\
           Abs(SumSeq(bt_weightList(bt_weights)) - Scale) > WeightTolerance) =>
         bt_net' = bt_net ]_vars
  /\ [](\A m \in bt_net :
         m.kind = "request" =>
           Abs(SumWeights(m.req.weights) - Scale) <= WeightTolerance)

\* C4: in every backtest request that is sent each weight lies in [0,1].
C4_SentWeightsInUnitInterval ==
  \A m \in bt_net :
    m.kind = "request" =>
      \A symbol \in DOMAIN m.req.weights :
        0 <= m.req.weights[symbol] /\ m.req.weights[symbol] <= Scale

\* the POST /models/train requests among the messages in flight
TrainRequestsIn(net) == { m \in net : m.kind = "train" }

\* C5: once a status response with status completed or failed has been
\* applied for a task, the status held for that task does not become a
\* non-terminal status.
C5_TerminalStatusIsFinal ==
  [][ (mt_status # NULL /\ mt_status.status \in Terminal) =>
        ~(mt_status'.task = mt_status.task /\ mt_status'.status \notin Terminal)
    ]_vars

\* C6: a POST /models/train is issued only by a step of handleStartTraining,
\* exactly one by each such step made with a non-empty selection; no step of
\* the polling loop (a failed status, a failing status request) issues one.
C6_NoAutomaticRetry ==
  /\ [][ (TrainRequestsIn(mt_net') \ TrainRequestsIn(mt_net) # {} \/ mt_posts' # mt_posts) =>
           /\ handleStartTraining
           /\ Cardinality(TrainRequestsIn(mt_net') \ TrainRequestsIn(mt_net)) = 1
           /\ mt_posts' = mt_posts + 1 ]_vars
  /\ [][ (handleStartTraining /\ Len(mt_selectedAssets) > 0) =>
           Cardinality(TrainRequestsIn(mt_net') \ TrainRequestsIn(mt_net)) = 1 ]_vars
  /\ [][ (\E id \in Tasks, reply \in StatusReplies : pollTrainingStatus_resume(id, reply)) =>
           (mt_net' = mt_net /\ mt_posts' = mt_posts) ]_vars

\* the one task started was seen to fail and nothing was sent again
C6_Witness ==
  /\ mt_posts = 1
  /\ mt_status # NULL /\ mt_status.status = "failed"
  /\ ~mt_training
  /\ mt_net = {}
  /\ srv_task = [ k \in Tasks |-> IF k = 1 THEN "failed" ELSE "none" ]

\* C7: when the most recently started task has ended in failed the page holds
\* no results; results is set only by a completed status response and is
\* cleared by every start of a task.
C7_NoResultsForFailedTask ==
  /\ []( ( /\ mt_posts > 0
           /\ mt_status # NULL
           /\ mt_status.task = mt_posts
           /\ mt_status.status = "failed" ) => mt_results = NULL )
  /\ [][ (mt_results' # mt_results /\ mt_results' # NULL) =>
           \E id \in Tasks : pollTrainingStatus_resume(id, "completed") ]_vars
  /\ [][ (handleStartTraining /\ mt_posts' # mt_posts) => mt_results' = NULL ]_vars

\* C8: while task T is the most recently started task, status, results and
\* training are changed only by starting T and by status responses for T: a
\* status response of an earlier task leaves them as they are.
C8_TasksShareNoState ==
  [][ \A id \in Tasks, reply \in StatusReplies :
        (pollTrainingStatus_resume(id, reply) /\ id # mt_posts) =>
          UNCHANGED << mt_status, mt_results, mt_training >> ]_vars

\* C11: riskTolerance lies in [0,1] (0..10 tenths) in every state of the
\* Optimizer page, it is changed only by the slider, and every optimize
\* request carries a risk_tolerance in [0,1].
C11_RiskToleranceInUnitInterval ==
  /\ [](/\ 0 <= opt_riskTolerance /\ opt_riskTolerance <= 10
        /\ \A m \in opt_net :
             m.kind = "request" =>
               (0 <= m.req.risk_tolerance /\ m.req.risk_tolerance <= 10))
  /\ [][ opt_riskTolerance' # opt_riskTolerance =>
           \E raw \in RawSliderValues : opt_setRiskTolerance(raw) ]_vars

\* a request made with the slider at its upper end, the slider since moved to
\* its lower end
C11_Witness ==
  /\ opt_riskTolerance = 0
  /\ \E m \in opt_net : m.kind = "request" /\ m.req.risk_tolerance = 10

\* C12: handleRunBacktest run on exactly one symbol with the single weight 1.0
\* sends a backtest request for that symbol with weight 1.0; run on zero
\* symbols it sends nothing and reports an error.
C12_SingleAssetBacktestPermitted ==
  /\ [][ ( /\ handleRunBacktest
           /\ Len(bt_symbolList(bt_symbols)) = 1
           /\ bt_weightList(bt_weights) = << Scale >> ) =>
         \E m \in bt_net' \ bt_net :
           /\ m.kind = "request"
           /\ m.req.symbols = bt_symbolList(bt_symbols)
           /\ DOMAIN m.req.weights = { bt_symbolList(bt_symbols)[1] }
           /\ m.req.weights[bt_symbolList(bt_symbols)[1]] = Scale ]_vars
  /\ [][ (handleRunBacktest /\ Len(bt_symbolList(bt_symbols)) = 0) =>
         /\ bt_net' = bt_net
         /\ bt_running' = bt_running
         /\ bt_toast' = "Enter at least one symbol"
         /\ bt_toastSeq' # bt_toastSeq ]_vars

\* a request for one symbol, carrying the weight 1.0, is in flight
C12_Witness ==
  \E m \in bt_net :
    /\ m.kind = "request"
    /\ m.req.symbols = << "AAPL" >>
    /\ m.req.weights["AAPL"] = Scale
    /\ bt_running

\* the task id of task k has been returned to the page: the server created
\* the task and the response to POST /models/train has been delivered
mt_TaskIdReceived(k) ==
  /\ srv_task[k] # "none"
  /\ \A m \in mt_net : ~(m.kind = "task_id" /\ m.task = k)

\* C13: the train call returns as soon as its task_id is there, whatever the
\* state of the task; a task is polled only after its task_id was received;
\* and each GET /models/status of the polling loop of a task carries the id of
\* that task.
C13_PollsRatherThanBlocks ==
  /\ []( (\E m \in mt_net : m.kind = "task_id") => ENABLED handleStartTraining_resume )
  /\ []( \A k \in Tasks :
           ( \/ mt_interval[k]
             \/ mt_statusRequests[k] > 0
             \/ \E reply \in StatusReplies : mt_statusResponses[<< k, reply >>] > 0 )
           => mt_TaskIdReceived(k) )
  /\ [][ \A id \in Tasks :
           pollTrainingStatus_tick(id) =>
             /\ mt_TaskIdReceived(id)
             /\ mt_statusRequests' = [ mt_statusRequests EXCEPT ![id] = @ + 1 ] ]_vars

\* the train call has returned and the task is polled while it is still queued
C13_Witness ==
  /\ mt_taskId = 1
  /\ mt_interval[1]
  /\ srv_task[1] = "queued"
  /\ mt_statusRequests[1] > 0
  /\ mt_net = {}

\* C14: the delivery of a failed optimize request toasts once, with the
\* server's detail when there is one, sends nothing, resets optimizing and
\* leaves results as they were; likewise for a failed backtest request.  A
\* request is posted, and a toast shown, only by a step of the page's handler.
C14_ErrorsSurfacedNeverRetried ==
  /\ [][ \A m \in opt_net :
           (m.kind = "error" /\ handleOptimize_resume /\ m \notin opt_net') =>
             /\ opt_toast' = (IF m.detail # NONE THEN m.detail ELSE "Optimization failed")
             /\ opt_toastSeq' # opt_toastSeq
             /\ opt_net' = opt_net \ {m}
             /\ opt_optimizing /\ ~opt_optimizing'
             /\ opt_results' = opt_results ]_vars
  /\ [][ \A m \in bt_net :
           (m.kind = "error" /\ handleRunBacktest_resume /\ m \notin bt_net') =>
             /\ bt_toast' = (IF m.detail # NONE THEN m.detail ELSE "Backtest failed")
             /\ bt_toastSeq' # bt_toastSeq
             /\ bt_net' = bt_net \ {m}
             /\ bt_running /\ ~bt_running'
             /\ bt_results' = bt_results ]_vars
  /\ [][ ( \/ opt_toastSeq' # opt_toastSeq
           \/ \E m \in opt_net' \ opt_net : m.kind = "request" ) =>
           (handleOptimize \/ handleOptimize_resume) ]_vars
  /\ [][ ( \/ bt_toastSeq' # bt_toastSeq
           \/ \E m \in bt_net' \ bt_net : m.kind = "request" ) =>
           (handleRunBacktest \/ handleRunBacktest_resume) ]_vars
  /\ [][ (handleOptimize_resume \/ handleRunBacktest_resume) =>
           ~(\E m \in (opt_net' \ opt_net) \cup (bt_net' \ bt_net) : TRUE) ]_vars

\* on each page a request failed after an earlier one had succeeded: the
\* error is shown, the flag is down and the earlier results are still held
C14_Witness ==
  /\ opt_results # NULL /\ opt_toast = "InsufficientData"
  /\ ~opt_optimizing /\ opt_net = {}
  /\ bt_results # NULL /\ bt_toast = "Backtest failed"
  /\ ~bt_running /\ bt_net = {}

\* the PortfolioWeights invariant: the weights sum to 1 within 1e-6 and each
\* lies in [0,1]
WeightsValid(w) ==
  /\ Abs(SumOver(w, DOMAIN w) - Scale) <= WeightTolerance
  /\ \A symbol \in DOMAIN w : 0 <= w[symbol] /\ w[symbol] <= Scale

\* C15: the weights of every result returned for an optimize request, and the
\* weights the Optimizer page holds in results and renders, sum to 1 within
\* 1e-6 and lie in [0,1], with one weight for each symbol requested.
C15_ResultWeightsValid ==
  /\ \A m \in opt_net :
       m.kind = "results" =>
         (WeightsValid(m.weights) /\ DOMAIN m.weights = Range(m.req.symbols))
  /\ opt_results # NULL => WeightsValid(opt_results.weights)

\* the page holds the results of an optimization that put everything in one
\* symbol, after one that split the portfolio was answered
C15_Witness ==
  /\ opt_results # NULL
  /\ \E symbol \in DOMAIN opt_results.weights : opt_results.weights[symbol] = Scale
  /\ \E m \in opt_net :
       m.kind = "results" /\ m.weights["AAPL"] = Scale \div 2

\* difference = |optimal - current| and action matches the sign
RecommendationConsistent(rec) ==
  /\ rec.difference = Abs(rec.optimal_weight - rec.current_weight)
  /\ rec.action \in { "increase", "decrease" }
  /\ rec.action = "increase" <=> rec.optimal_weight > rec.current_weight

\* C16: in every analysis result, as returned and as held by the Portfolio
\* page, each recommendation has difference = |optimal - current| and the
\* action increase exactly when the optimal weight exceeds the current one.
C16_RecommendationsConsistent ==
  /\ \A m \in pf_net :
       m.kind = "analysis" =>
         \A rec \in m.recommendations : RecommendationConsistent(rec)
  /\ pf_analysis # NULL =>
       \A rec \in pf_analysis.recommendations : RecommendationConsistent(rec)

\* the page holds an analysis that recommends one increase and one decrease
C16_Witness ==
  /\ pf_analysis # NULL
  /\ \E rec \in pf_analysis.recommendations :
       rec.action = "increase" /\ rec.difference > 0
  /\ \E rec \in pf_analysis.recommendations :
       rec.action = "decrease" /\ rec.difference > 0

\* C17: for every input that passes the validation of handleRunBacktest, the
\* request sent has one weights entry per entered symbol, maps the i-th
\* symbol to the i-th weight, and its weights sum to the sum that was checked.
C17_WeightsObjMatchesInput ==
  [][ ( /\ handleRunBacktest
        /\ bt_Validate(bt_symbolList(bt_symbols), bt_weightList(bt_weights)) = NONE ) =>
      \E m \in bt_net' \ bt_net :
        /\ m.kind = "request"
        /\ Cardinality(DOMAIN m.req.weights) = Len(bt_symbolList(bt_symbols))
        /\ \A i \in 1..Len(bt_symbolList(bt_symbols)) :
             m.req.weights[bt_symbolList(bt_symbols)[i]] = bt_weightList(bt_weights)[i]
        /\ SumWeights(m.req.weights) = SumSeq(bt_weightList(bt_weights)) ]_vars

\* C18: the polling loop of a task stops: its interval, once set, is
\* eventually cleared with training false; a cleared interval is not set
\* again and issues no further status request.
C18_PollingTerminates ==
  /\ \A k \in Tasks : mt_interval[k] ~> (~mt_interval[k] /\ ~mt_training)
  /\ [][ \A k \in Tasks :
           (mt_TaskIdReceived(k) /\ ~mt_interval[k]) =>
             (~mt_interval'[k] /\ ~pollTrainingStatus_tick(k)) ]_vars

\* the loop of a task that failed has stopped after polling it while it ran
C18_Witness ==
  /\ mt_TaskIdReceived(1)
  /\ ~mt_interval[1]
  /\ srv_task[1] = "failed"
  /\ mt_status # NULL /\ mt_status.status = "failed"
  /\ ~mt_training

\* C19: the rows of the Model Comparison list are in order of non-increasing
\* test R2, the best model (maximum test R2, then lowest test MSE, then least
\* name) is the first row, and it is the only row marked BEST.
C19_BestModelFirst ==
  cmp_rows # <<>> =>
    /\ \A i \in 1..(Len(cmp_rows) - 1) : cmp_rows[i].test_r2 >= cmp_rows[i + 1].test_r2
    /\ cmp_rows[1].name = srv_bestModel(cmp_models)
    /\ \A i \in 1..Len(cmp_rows) : cmp_rows[i].best <=> i = 1

\* C20: an analysis held by the Portfolio page is the analysis of the holdings
\* list the page holds, and no change of the selected portfolio or of the
\* holdings list leaves an analysis held.
C20_AnalysisScopedToHoldings ==
  /\ [](pf_analysis # NULL => pf_analysis.holdings = pf_holdings)
  /\ [][ ( /\ pf_analysis # NULL
           /\ \/ pf_currentPortfolio' # pf_currentPortfolio
              \/ pf_holdings' # pf_holdings ) =>
         pf_analysis' = NULL ]_vars

\* C21: every recommendation the Portfolio page holds is presented as an
\* increase (the neon-mint badge) exactly when its action is "increase", and
\* as a decrease (the amber badge) exactly when its action is "decrease".
C21_BadgeMatchesAction ==
  pf_analysis # NULL =>
    \A rec \in pf_analysis.recommendations :
      /\ pf_ActionBadge(rec) = "neon-mint" <=> rec.action = "increase"
      /\ pf_ActionBadge(rec) = "amber-400" <=> rec.action = "decrease"

\* C22: at most one status-polling interval is set on the ModelTraining page,
\* and training is true whenever one is set.
C22_AtMostOnePollingLoop ==
  /\ Cardinality({ k \in Tasks : mt_interval[k] }) <= 1
  /\ (\E k \in Tasks : mt_interval[k]) => mt_training

\* C23: once no debounce timer is pending and no search request is in
\* flight, and no search has failed, the search results are empty if the
\* query is empty or blank and are otherwise the assets found for the query
\* and asset type the page holds.
C23_SearchShowsCurrentResults ==
  ( /\ sr_timer = NULL
    /\ sr_net = {}
    /\ opt_toast # "Search failed" ) =>
      sr_searchResults =
        IF Trim(sr_searchQuery) = "" THEN {}
        ELSE srv_search(sr_searchQuery, opt_assetType)

\* C24: every optimize request sent carries asset_type equal to the asset
\* type under which each of its symbols was added to the selection.
C24_SymbolsOfRequestAssetClass ==
  [][ (handleOptimize /\ opt_net' # opt_net) =>
        \A i \in 1..Len(opt_selectedAssets) :
          opt_selectedAssets[i].type = opt_Request.asset_type ]_vars

\* C25: on a protected path the page is rendered only when loading is false
\* and user is non-null; while loading is true the spinner is rendered; with
\* loading false and user null the route redirects to /auth.
C25_ProtectedPageNeedsUser ==
  rt_path \in ProtectedPaths =>
    /\ rt_Element = rt_path => (~au_loading /\ au_user # NONE)
    /\ au_loading => rt_Element = "spinner"
    /\ (~au_loading /\ au_user = NONE) => rt_Element = "Navigate /auth"

\* a protected page is rendered for a user who logged in
C25_Witness ==
  /\ rt_path = "/dashboard"
  /\ rt_Element = "/dashboard"
  /\ au_user = RegisteredUser
  /\ au_token > 1

\* fetchUser has handled a failed GET /auth/me
fetchUser_failed ==
  fetchUser_resume /\ \E m \in au_net \ au_net' : m.kind = "me_failed"

\* C26: after logout, by the button or by a failed fetchUser, token and user
\* are null, isGuest is false and localStorage holds none of access_token,
\* refresh_token and guest_mode; and token is non-null exactly when
\* localStorage holds an access_token.
C26_LogoutClearsSession ==
  /\ [][ (logout_click \/ fetchUser_failed) =>
           /\ au_token' = 0
           /\ au_user' = NONE
           /\ ~au_isGuest'
           /\ localStorage' = [ access_token |-> 0, refresh_token |-> 0,
                                guest_mode |-> NONE ] ]_vars
  /\ [](au_token # 0 <=> localStorage.access_token # 0)

\* a user who logged in has logged out
C26_Witness ==
  /\ srv_issued > 1
  /\ \A m \in au_net : m.kind # "login_ok"
  /\ au_token = 0
  /\ localStorage.access_token = 0

\* C27: a non-guest user is held only while token is non-null.
C27_UserOnlyWithToken ==
  au_user = RegisteredUser => au_token # 0

\* C28: handleSkip leaves isGuest true and user the guest user, and the
\* dashboard is rendered.
C28_SkipEntersGuestMode ==
  [][ handleSkip =>
        /\ au_isGuest'
        /\ au_user' = GuestUser
        /\ rt_Element' = "/dashboard" ]_vars

C30_HistoryRequestForSelectedWindow ==
  [][ vh_timeout =>
        \A r \in pf_historyNet' \ pf_historyNet :
          /\ r.days = pf_historyDays
          /\ r.portfolio_id = pf_currentPortfolio ]_vars

\* C9: no two selected assets have the same symbol, and the symbols list of
\* every optimize request is duplicate-free.
C9_SymbolsUnique ==
  /\ NoDuplicates(SymbolsOf(opt_selectedAssets))
  /\ \A m \in opt_net : NoDuplicates(m.req.symbols)

\* a request is in flight for a selection built across an asset-type switch,
\* where the ticker already selected is offered again in the other class
C9_Witness ==
  /\ opt_assetType = "crypto"
  /\ SymbolsOf(opt_selectedAssets) = << "MSFT", "AAPL" >>
  /\ \E m \in opt_net : m.kind = "request" /\ Len(m.req.symbols) = 2

\* C10: every optimize request that is answered with results has
\* start_date <= end_date.
C10_ResultsOnlyForOrderedDates ==
  /\ \A m \in opt_net :
       m.kind = "results" => m.req.start_date <= m.req.end_date
  /\ opt_results # NULL =>
       opt_results.start_date <= opt_results.end_date

\* a request with start > end was sent and has been answered InvalidRequest
C10_Witness ==
  \E m \in opt_net :
    /\ m.kind = "error"
    /\ m.detail = "InvalidRequest"
    /\ m.req.start_date > m.req.end_date

====
